---- MODULE Spec2Model ----
(***************************************************************************)
(* Model of the Kakashi performance-test runner                            *)
(* (src/performance_tests/run_tests.py): run_command, the suite sequence   *)
(* of main, generate_report, print_report, save_report and the exit codes, *)
(* and of the summary generator (src/performance_tests/generate_summary.py)*)
(* that loads the saved reports of several runs and renders a summary.     *)
(*                                                                         *)
(* A child process started by subprocess.run is the environment: it ends   *)
(* in one of the outcomes subprocess.run can produce (normal exit, killed  *)
(* by a signal, timeout, output that cannot be decoded, spawn failure).    *)
(* KeyboardInterrupt is an environment action that may arrive at any       *)
(* position of main.                                                       *)
(***************************************************************************)
EXTENDS Integers, Sequences, FiniteSets, TLC

VARIABLES
    args,         \* parsed command line (argparse namespace)
    pc,           \* position of main
    child,        \* "none" | "running" | "hung": the child process of
                  \* subprocess.run; a hung child never exits on its own
    invoked,      \* descriptions of the run_command calls made so far
    ret,          \* <<>> or <<[outcome, result]>>: last return of run_command
    results,      \* the results list of main
    report,       \* <<>> or <<report>>: the report built by generate_report
    console,      \* what main has printed (abstract tags)
    saved,        \* the report file on disk
    exit_status,  \* <<>> while running, <<status>> once the process ended
    interrupted,  \* a KeyboardInterrupt was delivered
    printed,      \* the "Detailed Results" lines print_report has printed
    closing,      \* <<>> or <<the closing message print_report has printed>>
    saved_doc,    \* <<>> or <<doc>>: the JSON document in the report file
    \* generate_summary.py
    dir,          \* the *.json files under results_dir, in glob order
    fmt,          \* args.format
    s_pc,         \* position of main of generate_summary.py
    scan,         \* index in dir of the next file load_test_results reads
    loaded,       \* the results dict of load_test_results, insertion order
    warnings,     \* paths of the files a warning was printed for
    analysis,     \* <<>> or <<the dict of analyze_performance_results>>
    outputs,      \* the summary files written
    s_console,    \* what main of generate_summary.py has printed (tags)
    s_exit        \* <<>> while running, <<status>> once the process ended

runvars == <<args, pc, child, invoked, ret, results, report, console, saved,
             exit_status, interrupted, printed, closing, saved_doc>>

sumvars == <<dir, fmt, s_pc, scan, loaded, warnings, analysis, outputs,
             s_console, s_exit>>

vars == <<runvars, sumvars>>

----------------------------------------------------------------------------
(* Bounds of the model *)

MaxElapsed == 1       \* measured wall times of a child are 0..MaxElapsed
MaxResults == 3       \* longest result list fed to generate_report alone
MaxFiles == 2         \* most *.json files found under results_dir
MaxClock == 1         \* datetime.now() returns one of 0..MaxClock
MaxCalls == 3         \* calls of the renderers on the same data

(* Program constants *)

TimeoutSeconds == 300
TimeoutMessage == "Command timed out after 300 seconds"
SentinelReturncode == -1
InterruptExit == 130
ExcerptLimit == 200

InstallDescription == "Installing test dependencies"
ApiDescription == "API Compatibility Tests"
PerformanceDescription == "Performance Benchmark Tests"
StabilityDescription == "Stability Tests"

DefaultReportFile == "test_report.json"
ReportFiles == {DefaultReportFile, "test-report-3.11.json"}

----------------------------------------------------------------------------
(* The environment: what a call of subprocess.run can end in *)

ExitCodes == {0, 1, 255}          \* exit statuses of a child (0..255)
Signals == {1, 9}                 \* SIGHUP, SIGKILL
ChildStderr == {"", "E"}          \* text the child wrote to stderr
Elapsed == 0 .. MaxElapsed
SpawnErrors == {"[Errno 2] No such file or directory",
                "[Errno 13] Permission denied"}
DecodeErrorText == "'utf-8' codec can't decode byte 0xff"

\* stderr of exactly ExcerptLimit characters, and of one more
Stderr200 == "E repeated 200 times"
Stderr201 == "E repeated 201 times"
LongStderr == {Stderr200, Stderr201}

\* len(s) of the texts that occur as stderr
Chars(s) ==
    CASE s = "" -> 0
      [] s = "E" -> 1
      [] s = Stderr200 -> 200
      [] s = Stderr201 -> 201
      [] s = TimeoutMessage -> 35
      [] s = "[Errno 2] No such file or directory" -> 35
      [] s = "[Errno 13] Permission denied" -> 28
      [] s = DecodeErrorText -> 36

\* "E" * n
Es(n) ==
    CASE n = 0 -> ""
      [] n = 1 -> "E"
      [] n = 200 -> Stderr200
      [] n = 201 -> Stderr201

\* s[:k]; only the texts made of E are longer than ExcerptLimit
Slice(s, k) == IF Chars(s) <= k THEN s ELSE Es(k)

ExitOutcomes ==
    [kind : {"exit"}, code : ExitCodes, stderr : ChildStderr, elapsed : Elapsed]
    \cup
    [kind : {"exit"}, code : {1}, stderr : LongStderr, elapsed : {0}]
SignalOutcomes ==
    [kind : {"signal"}, code : Signals, stderr : {""}, elapsed : Elapsed]
TimeoutOutcomes ==
    [kind : {"timeout"}, code : {0}, stderr : {""}, elapsed : {TimeoutSeconds}]
DecodeOutcomes ==
    [kind : {"decode_error"}, code : ExitCodes, stderr : {DecodeErrorText},
     elapsed : {0}]
SpawnOutcomes ==
    [kind : {"spawn_error"}, code : {0}, stderr : SpawnErrors, elapsed : {0}]

\* outcomes of a child that was started
ChildOutcomes ==
    ExitOutcomes \cup SignalOutcomes \cup TimeoutOutcomes \cup DecodeOutcomes
Outcomes == ChildOutcomes \cup SpawnOutcomes

\* CompletedProcess.returncode: the exit status, or -N for a child killed
\* by signal N
CompletedReturncode(o) ==
    IF o.kind = "signal" THEN 0 - o.code ELSE o.code

----------------------------------------------------------------------------
(* run_command *)

\* subprocess.run returned a CompletedProcess
CompletedResult(o, d) ==
    [success |-> CompletedReturncode(o) = 0,
     returncode |-> CompletedReturncode(o),
     stdout |-> "out",
     stderr |-> o.stderr,
     duration |-> o.elapsed,
     description |-> d]

TimeoutResultZeroDuration(o, d) ==
    [success |-> FALSE,
     returncode |-> SentinelReturncode,
     stdout |-> "",
     stderr |-> TimeoutMessage,
     duration |-> 0,
     description |-> d]

\* except subprocess.TimeoutExpired
TimeoutResult(o, d) ==
    [success |-> FALSE,
     returncode |-> SentinelReturncode,
     stdout |-> "",
     stderr |-> TimeoutMessage,
     duration |-> TimeoutSeconds,
     description |-> d]

ExceptionResultExitOne(o, d) ==
    [success |-> FALSE,
     returncode |-> 1,
     stdout |-> "",
     stderr |-> o.stderr,
     duration |-> 0,
     description |-> d]

\* except Exception as e: the child could not be started, or its output
\* could not be decoded (text=True)
ExceptionResult(o, d) ==
    [success |-> FALSE,
     returncode |-> SentinelReturncode,
     stdout |-> "",
     stderr |-> o.stderr,
     duration |-> 0,
     description |-> d]

\* the dictionary run_command returns for outcome o of subprocess.run
RunResult(o, d) ==
    CASE o.kind \in {"exit", "signal"} -> CompletedResult(o, d)
      [] o.kind = "timeout" -> TimeoutResult(o, d)
      [] OTHER -> ExceptionResult(o, d)

----------------------------------------------------------------------------
(* main: suite selection *)

AllSuites == <<ApiDescription, PerformanceDescription, StabilityDescription>>

SuitesToRunSeparateIf(a) ==
    (IF a.api_only THEN <<ApiDescription>> ELSE <<>>) \o
    (IF a.performance_only THEN <<PerformanceDescription>>
     ELSE IF a.stability_only THEN <<StabilityDescription>>
     ELSE AllSuites)

SuitesToRunLastFlagWins(a) ==
    IF a.stability_only THEN <<StabilityDescription>>
    ELSE IF a.performance_only THEN <<PerformanceDescription>>
    ELSE IF a.api_only THEN <<ApiDescription>>
    ELSE AllSuites

\* the if/elif/else of main: the suites run for the given flags, in order
SuitesToRun(a) ==
    IF a.api_only THEN <<ApiDescription>>
    ELSE IF a.performance_only THEN <<PerformanceDescription>>
    ELSE IF a.stability_only THEN <<StabilityDescription>>
    ELSE AllSuites

RunsAll(a) == ~a.api_only /\ ~a.performance_only /\ ~a.stability_only

MoreSuitesStopOnFailure(a, rs) ==
    /\ Len(rs) < Len(SuitesToRun(a))
    /\ \A i \in 1 .. Len(rs) : rs[i].success

\* main goes on to the next results.append(run_..._tests()) while the
\* selected suites are not all done, whatever the results so far
MoreSuites(a, rs) == Len(rs) < Len(SuitesToRun(a))

----------------------------------------------------------------------------
(* generate_report *)

RECURSIVE CountSuccess(_)
CountSuccess(rs) ==
    IF rs = <<>> THEN 0
    ELSE (IF Head(rs).success THEN 1 ELSE 0) + CountSuccess(Tail(rs))

RECURSIVE SumDuration(_)
SumDuration(rs) ==
    IF rs = <<>> THEN 0 ELSE Head(rs).duration + SumDuration(Tail(rs))

\* success_rate is a float in the code; it is kept here as the rational
\* num/den it is computed from (rounding of the float is not modelled)
SuccessRateFraction(successful, total) ==
    IF total > 0 THEN [num |-> successful, den |-> total]
    ELSE [num |-> 0, den |-> 1]

SuccessRate(successful, total) ==
    IF total > 0 THEN [num |-> successful * 100, den |-> total]
    ELSE [num |-> 0, den |-> 1]

FailedCountIsTotal(total, successful) == total

FailedCount(total, successful) == total - successful

FailuresFirst(rs) ==
    SelectSeq(rs, LAMBDA r : ~r.success) \o SelectSeq(rs, LAMBDA r : r.success)

\* "results": results in the report dictionary: the list as it was passed
ReportResults(rs) == rs

generate_report(rs) ==
    [summary |->
        [total_tests |-> Len(rs),
         successful_tests |-> CountSuccess(rs),
         failed_tests |-> FailedCount(Len(rs), CountSuccess(rs)),
         success_rate |-> SuccessRate(CountSuccess(rs), Len(rs)),
         total_duration |-> SumDuration(rs)],
     results |-> ReportResults(rs),
     timestamp |-> "now",
     python_version |-> "sys.version",
     platform |-> "sys.platform"]

ExitCodeAlwaysZero(rep) == 0

\* sys.exit(1) if report["summary"]["failed_tests"] > 0 else sys.exit(0)
ExitCode(rep) == IF rep.summary.failed_tests > 0 THEN 1 ELSE 0

----------------------------------------------------------------------------
(* print_report and save_report *)

\* print(f"    Error: {result['stderr'][:200]}..."): the excerpt shown
ConsoleExcerpt(s) == [text |-> Slice(s, ExcerptLimit), ellipsis |-> TRUE]

\* one "Detailed Results" line of print_report per result, in list order,
\* with the Error line under it for a failed result with a non-empty stderr
PrintedLines(rep) ==
    [i \in 1 .. Len(rep.results) |->
        [status |-> IF rep.results[i].success THEN "PASS" ELSE "FAIL",
         description |-> rep.results[i].description,
         duration |-> rep.results[i].duration,
         error |-> IF ~rep.results[i].success /\ rep.results[i].stderr # ""
                   THEN <<ConsoleExcerpt(rep.results[i].stderr)>>
                   ELSE <<>>]]

\* the "Overall result" line of print_report
ClosingMessage(rep) ==
    IF rep.summary.failed_tests = 0
    THEN [variant |-> "all_passed", count |-> <<>>]
    ELSE [variant |-> "failed", count |-> <<rep.summary.failed_tests>>]

\* A JSON document as generate_summary.py reads it.  A key that may be
\* missing is <<>> when missing and <<value>> when present.
\*   top       "object", or the kind of a non-object top-level value
\*   summary   "object", "missing", or the kind of a non-object value
\*   items     the entries of "results" (has_results: the key is there)
ItemOf(r) ==
    [kind |-> "object", success |-> <<r.success>>,
     description |-> <<r.description>>, stderr |-> <<r.stderr>>,
     duration |-> <<r.duration>>]

\* json.dump(report): the document written by save_report
ToDoc(rep) ==
    [top |-> "object",
     summary |-> "object",
     total_tests |-> <<rep.summary.total_tests>>,
     successful_tests |-> <<rep.summary.successful_tests>>,
     failed_tests |-> <<rep.summary.failed_tests>>,
     total_duration |-> <<rep.summary.total_duration>>,
     has_results |-> TRUE,
     items |-> [i \in 1 .. Len(rep.results) |-> ItemOf(rep.results[i])]]

----------------------------------------------------------------------------
(* main: exception handlers *)

InterruptHandlerWithReport(con) ==
    [console |-> con \o <<"report", "interrupted">>,
     exit_status |-> <<InterruptExit>>]

\* except KeyboardInterrupt: print the message, sys.exit(130)
InterruptHandler(con) ==
    [console |-> Append(con, "interrupted"),
     exit_status |-> <<InterruptExit>>]

\* except Exception: print the error, sys.exit(1)
ErrorHandler(con) ==
    [console |-> Append(con, "unexpected_error"),
     exit_status |-> <<1>>]

\* A KeyboardInterrupt outside the try block of main is not caught: the
\* interpreter prints a traceback and ends with status 1, or kills itself
\* with SIGINT (seen by a parent's subprocess as -2 and by a POSIX shell as
\* 128+2; it is never the exit code of sys.exit(130)).
UncaughtInterruptStatus == {1, 0 - 2}

----------------------------------------------------------------------------
(* State machine of main *)

ArgSpace ==
    [install_deps : BOOLEAN, api_only : BOOLEAN, performance_only : BOOLEAN,
     stability_only : BOOLEAN, save_report : BOOLEAN, report_file : ReportFiles]

NoFile == [file |-> "", state |-> "none"]

\* no summary-report file written yet
NoOutputs == [md |-> <<>>, json |-> <<>>]

\* generate_summary.py is not running
SummaryIdle ==
    /\ dir = <<>>
    /\ fmt = "both"
    /\ s_pc = "idle"
    /\ scan = 1
    /\ loaded = <<>>
    /\ warnings = <<>>
    /\ analysis = <<>>
    /\ outputs = NoOutputs
    /\ s_console = <<>>
    /\ s_exit = <<>>

\* main after parse_args, at "if args.install_deps": install_dependencies is
\* called only with --install-deps, otherwise main enters its try block
Init ==
    /\ args \in ArgSpace
    /\ pc = (IF args.install_deps THEN "install" ELSE "suites")
    /\ child = "none"
    /\ invoked = <<>>
    /\ ret = <<>>
    /\ results = <<>>
    /\ report = <<>>
    /\ console = <<>>
    /\ saved = NoFile
    /\ exit_status = <<>>
    /\ interrupted = FALSE
    /\ printed = <<>>
    /\ closing = <<>>
    /\ saved_doc = <<>>
    /\ SummaryIdle

CurrentDescription ==
    IF pc = "install" THEN InstallDescription
    ELSE SuitesToRun(args)[Len(results) + 1]

\* run_command has returned r to its caller (install_dependencies or main)
Return(o) ==
    LET r == RunResult(o, CurrentDescription) IN
    /\ ret' = <<[outcome |-> o, result |-> r]>>
    /\ IF pc = "install"
       THEN /\ results' = results
            /\ IF r.success
               THEN /\ pc' = "suites"
                    /\ console' = Append(console, "deps_installed")
                    /\ exit_status' = exit_status
               ELSE /\ pc' = "done"
                    /\ console' = Append(console, "deps_failed")
                    /\ exit_status' = <<1>>
       ELSE /\ results' = Append(results, r)
            /\ pc' = IF MoreSuites(args, Append(results, r))
                     THEN "suites" ELSE "report"
            /\ console' = console
            /\ exit_status' = exit_status

CallerNeverBlocked(c) == FALSE

\* subprocess.run does not return while its child is there: main cannot
\* reach the next call of run_command
CallerBlocked(c) == c # "none"

HungOutcomesNoTimeout == {}

\* subprocess.run(timeout=300) on a child that never exits: the child is
\* killed and TimeoutExpired is raised
HungOutcomes == TimeoutOutcomes

\* what subprocess.run can return or raise for a started child
WaitOutcomes(c) == IF c = "hung" THEN HungOutcomes ELSE ChildOutcomes

\* run_command is called and subprocess.run starts the child
RunCommandSpawn ==
    /\ pc \in {"install", "suites"}
    /\ ~CallerBlocked(child)
    /\ invoked' = Append(invoked, CurrentDescription)
    /\ child' \in {"running", "hung"}
    /\ UNCHANGED <<args, ret, results, report, console, saved, exit_status,
                   interrupted, pc, printed, closing, saved_doc>>
    /\ UNCHANGED sumvars

\* run_command is called and subprocess.run fails to start the child
RunCommandSpawnFails ==
    /\ pc \in {"install", "suites"}
    /\ ~CallerBlocked(child)
    /\ invoked' = Append(invoked, CurrentDescription)
    /\ child' = "none"
    /\ \E o \in SpawnOutcomes : Return(o)
    /\ UNCHANGED <<args, report, saved, interrupted, printed, closing,
                   saved_doc>>
    /\ UNCHANGED sumvars

\* subprocess.run returns or raises for a started child; on a timeout the
\* child has been killed and reaped by subprocess.run
RunCommandWait ==
    /\ pc \in {"install", "suites"}
    /\ child \in {"running", "hung"}
    /\ child' = "none"
    /\ \E o \in WaitOutcomes(child) : Return(o)
    /\ UNCHANGED <<args, invoked, report, saved, interrupted, printed,
                   closing, saved_doc>>
    /\ UNCHANGED sumvars

GenerateReport ==
    /\ pc = "report"
    /\ report' = <<generate_report(results)>>
    /\ pc' = "print"
    /\ UNCHANGED <<args, child, invoked, ret, results, console, saved,
                   exit_status, interrupted, printed, closing, saved_doc>>
    /\ UNCHANGED sumvars

\* print_report, then sys.exit when no report is to be saved
PrintReport ==
    /\ pc = "print"
    /\ console' = Append(console, "report")
    /\ printed' = PrintedLines(report[1])
    /\ closing' = <<ClosingMessage(report[1])>>
    /\ IF args.save_report
       THEN /\ pc' = "save"
            /\ exit_status' = exit_status
       ELSE /\ pc' = "done"
            /\ exit_status' = <<ExitCode(report[1])>>
    /\ UNCHANGED <<args, child, invoked, ret, results, report, saved,
                   interrupted, saved_doc>>
    /\ UNCHANGED sumvars

\* save_report succeeds, then sys.exit
SaveReport ==
    /\ pc = "save"
    /\ saved' = [file |-> args.report_file, state |-> "complete"]
    /\ saved_doc' = <<ToDoc(report[1])>>
    /\ console' = Append(console, "saved")
    /\ pc' = "done"
    /\ exit_status' = <<ExitCode(report[1])>>
    /\ UNCHANGED <<args, child, invoked, ret, results, report, interrupted,
                   printed, closing>>
    /\ UNCHANGED sumvars

\* open() in save_report raises (unwritable path): except Exception in main
SaveReportFails ==
    /\ pc = "save"
    /\ console' = ErrorHandler(console).console
    /\ exit_status' = ErrorHandler(console).exit_status
    /\ pc' = "done"
    /\ UNCHANGED <<args, child, invoked, ret, results, report, saved,
                   interrupted, printed, closing, saved_doc>>
    /\ UNCHANGED sumvars

\* KeyboardInterrupt inside install_dependencies, before the try block:
\* nothing catches it; subprocess.run kills a running child on its way out
InterruptUncaught ==
    /\ pc = "install"
    /\ interrupted' = TRUE
    /\ child' = "none"
    /\ \E s \in UncaughtInterruptStatus : exit_status' = <<s>>
    /\ console' = Append(console, "traceback")
    /\ pc' = "done"
    /\ UNCHANGED <<args, invoked, ret, results, report, saved, printed,
                   closing, saved_doc>>
    /\ UNCHANGED sumvars

\* KeyboardInterrupt inside the try block of main
InterruptInTry ==
    /\ pc \in {"suites", "report", "print", "save"}
    /\ interrupted' = TRUE
    /\ child' = "none"
    /\ console' = InterruptHandler(console).console
    /\ exit_status' = InterruptHandler(console).exit_status
    /\ pc' = "done"
    /\ IF pc = "save"
       THEN \/ saved' = saved /\ saved_doc' = saved_doc
            \/ /\ saved' = [file |-> args.report_file, state |-> "partial"]
               /\ saved_doc' = <<>>
            \/ /\ saved' = [file |-> args.report_file, state |-> "complete"]
               /\ saved_doc' = <<ToDoc(report[1])>>
       ELSE saved' = saved /\ saved_doc' = saved_doc
    /\ IF pc = "print"
       THEN \E k \in 0 .. Len(results) :
                /\ printed' = SubSeq(PrintedLines(report[1]), 1, k)
                /\ \/ closing' = closing
                   \/ /\ k = Len(results)
                      /\ closing' = <<ClosingMessage(report[1])>>
       ELSE printed' = printed /\ closing' = closing
    /\ UNCHANGED <<args, invoked, ret, results, report>>
    /\ UNCHANGED sumvars

Next ==
    \/ RunCommandSpawn
    \/ RunCommandSpawnFails
    \/ RunCommandWait
    \/ GenerateReport
    \/ PrintReport
    \/ SaveReport
    \/ SaveReportFails
    \/ InterruptUncaught
    \/ InterruptInTry

Spec == Init /\ [][Next]_vars

\* the steps main takes by itself; an interruption is the operator's
Progress ==
    \/ RunCommandSpawn
    \/ RunCommandSpawnFails
    \/ RunCommandWait
    \/ GenerateReport
    \/ PrintReport
    \/ SaveReport
    \/ SaveReportFails

\* main is one thread that runs until it exits, and subprocess.run returns
\* or raises once its child has exited or the timeout has elapsed
SpecLive == Spec /\ WF_vars(Progress)

----------------------------------------------------------------------------
(* generate_report on its own: any list of run_command results, the empty  *)
(* list included                                                           *)

BoundedSeq(S, n) == UNION {[1 .. k -> S] : k \in 0 .. n}

ResultSet == {RunResult(o, ApiDescription) : o \in Outcomes}

NoFlags ==
    [install_deps |-> FALSE, api_only |-> FALSE, performance_only |-> FALSE,
     stability_only |-> FALSE, save_report |-> FALSE,
     report_file |-> DefaultReportFile]

InitReport ==
    /\ args = NoFlags
    /\ pc = "report"
    /\ child = "none"
    /\ invoked = <<>>
    /\ ret = <<>>
    /\ results \in BoundedSeq(ResultSet, MaxResults)
    /\ report = <<>>
    /\ console = <<>>
    /\ saved = NoFile
    /\ exit_status = <<>>
    /\ interrupted = FALSE
    /\ printed = <<>>
    /\ closing = <<>>
    /\ saved_doc = <<>>
    /\ SummaryIdle

NextReport == GenerateReport

SpecReport == InitReport /\ [][NextReport]_vars

----------------------------------------------------------------------------
(* generate_summary.py: the files under results_dir *)

\* A file name is the sequence of the pieces load_test_results looks at:
\* 'test-report-' in filename is membership of Marker, and
\* filename.replace('test-report-', '').replace('.json', '') removes the
\* Marker and JsonSuffix pieces.
Marker == "test-report-"
JsonSuffix == ".json"

ReportName(label) == <<Marker, label, JsonSuffix>>

\* paths glob can return: per-version directories, a second file of the same
\* name in another directory, the default --report-file of run_tests.py and
\* a name that contains the marker without starting with it
Paths ==
    {[dir |-> "py311", name |-> ReportName("3.11")],
     [dir |-> "py39", name |-> ReportName("3.9")],
     [dir |-> "rerun", name |-> ReportName("3.9")],
     [dir |-> "py39", name |-> <<"test_report", JsonSuffix>>],
     [dir |-> "py39", name |-> <<"old-", Marker, "3.9", JsonSuffix>>]}

PassingResult ==
    RunResult([kind |-> "exit", code |-> 0, stderr |-> "", elapsed |-> 0],
              ApiDescription)
FailingResult ==
    RunResult([kind |-> "exit", code |-> 1, stderr |-> "E", elapsed |-> 0],
              StabilityDescription)

\* reports as run_tests.py saves them
DocPass == ToDoc(generate_report(<<PassingResult>>))
DocFail == ToDoc(generate_report(<<FailingResult, PassingResult, FailingResult>>))

\* a saved report whose failures wrote ExcerptLimit characters and one more
DocLongErrors ==
    ToDoc(generate_report(
        <<RunResult([kind |-> "exit", code |-> 1, stderr |-> Stderr200,
                     elapsed |-> 0], ApiDescription),
          PassingResult,
          RunResult([kind |-> "exit", code |-> 1, stderr |-> Stderr201,
                     elapsed |-> 0], StabilityDescription)>>))

\* {}
DocEmptyObject ==
    [top |-> "object", summary |-> "missing", total_tests |-> <<>>,
     successful_tests |-> <<>>, failed_tests |-> <<>>, total_duration |-> <<>>,
     has_results |-> FALSE, items |-> <<>>]

\* {"summary": {"total_tests": 1}, "results": [{}]}: fields are missing
DocSparse ==
    [top |-> "object", summary |-> "object", total_tests |-> <<1>>,
     successful_tests |-> <<>>, failed_tests |-> <<>>, total_duration |-> <<>>,
     has_results |-> TRUE,
     items |-> <<[kind |-> "object", success |-> <<>>, description |-> <<>>,
                  stderr |-> <<>>, duration |-> <<>>]>>]

\* [] : the top-level value is no object
DocArray == [DocEmptyObject EXCEPT !.top = "array"]

\* {"summary": null}
DocSummaryNull == [DocEmptyObject EXCEPT !.summary = "null"]

\* {"summary": {"failed_tests": 0}, "results": [1]}: an entry is no object
DocBadItem ==
    [top |-> "object", summary |-> "object", total_tests |-> <<>>,
     successful_tests |-> <<>>, failed_tests |-> <<0>>, total_duration |-> <<>>,
     has_results |-> TRUE,
     items |-> <<[kind |-> "number", success |-> <<>>, description |-> <<>>,
                  stderr |-> <<>>, duration |-> <<>>]>>]

Docs ==
    {DocPass, DocFail, DocLongErrors, DocEmptyObject, DocSparse, DocArray,
     DocSummaryNull, DocBadItem}

\* a file: valid = open() and json.load() succeed, and then doc is its value
Files ==
    {[dir |-> p.dir, name |-> p.name, valid |-> TRUE, doc |-> d] :
        p \in Paths, d \in Docs}
    \cup
    {[dir |-> p.dir, name |-> p.name, valid |-> FALSE, doc |-> DocEmptyObject] :
        p \in Paths}

PathOf(f) == [dir |-> f.dir, name |-> f.name]

\* what glob.glob(results_dir/**/*.json) can return: distinct paths, any order
Listings ==
    {l \in BoundedSeq(Files, MaxFiles) :
        \A i, j \in 1 .. Len(l) : PathOf(l[i]) = PathOf(l[j]) => i = j}

Formats == {"both", "markdown", "json"}

----------------------------------------------------------------------------
(* load_test_results *)

\* 'test-report-' in filename
Matches(name) == \E i \in 1 .. Len(name) : name[i] = Marker

\* filename.replace('test-report-', '').replace('.json', '')
LabelOf(name) == SelectSeq(name, LAMBDA t : t # Marker /\ t # JsonSuffix)

\* f"python_{version}"
KeyOf(name) == <<"python_">> \o LabelOf(name)

Keys(m) == [i \in 1 .. Len(m) |-> m[i].key]

HasKey(m, k) == \E i \in 1 .. Len(m) : m[i].key = k

DictSetKeepFirst(m, k, v) ==
    IF HasKey(m, k) THEN m ELSE Append(m, [key |-> k, data |-> v])

\* results[k] = v on a dict: an existing key keeps its place and gets the
\* new value, a new key goes last
DictSet(m, k, v) ==
    IF HasKey(m, k)
    THEN [i \in 1 .. Len(m) |->
            IF m[i].key = k THEN [key |-> k, data |-> v] ELSE m[i]]
    ELSE Append(m, [key |-> k, data |-> v])

\* the body of the try for one file
LoadedAfter(m, f) ==
    IF f.valid /\ Matches(f.name) THEN DictSet(m, KeyOf(f.name), f.doc) ELSE m

WarningsAfterWarnOnSkip(w, f) ==
    IF ~f.valid \/ ~Matches(f.name) THEN Append(w, PathOf(f)) ELSE w

\* except Exception as e: print the warning
WarningsAfter(w, f) == IF ~f.valid THEN Append(w, PathOf(f)) ELSE w

AbortOnBadFile(i, f, n) == IF f.valid THEN i + 1 ELSE n + 1

\* the for loop goes on to the next file, whether the try raised or not
NextFile(i, f, n) == i + 1

NoResultsNever(m) == FALSE

\* if not results:
NoResults(m) == m = <<>>

----------------------------------------------------------------------------
(* analyze_performance_results *)

\* data.get("summary", {}).get("failed_tests", 0) raises AttributeError when
\* data or data["summary"] is no dict
Analyzable(doc) == doc.top = "object" /\ doc.summary \in {"object", "missing"}

FailedTestsReadsTotal(doc) ==
    IF doc.summary = "object" /\ doc.total_tests # <<>>
    THEN doc.total_tests[1] ELSE 0

FailedTests(doc) ==
    IF doc.summary = "object" /\ doc.failed_tests # <<>>
    THEN doc.failed_tests[1] ELSE 0

PassedRequiresSummary(doc) ==
    doc.summary = "object" /\ doc.failed_tests = <<0>>

Passed(doc) == FailedTests(doc) = 0

RECURSIVE CountPassed(_)
CountPassed(m) ==
    IF m = <<>> THEN 0
    ELSE (IF Passed(Head(m).data) THEN 1 ELSE 0) + CountPassed(Tail(m))

RECURSIVE FailedRunsSumsTests(_)
FailedRunsSumsTests(m) ==
    IF m = <<>> THEN 0
    ELSE FailedTests(Head(m).data) + FailedRunsSumsTests(Tail(m))

RECURSIVE FailedRuns(_)
FailedRuns(m) ==
    IF m = <<>> THEN 0
    ELSE (IF Passed(Head(m).data) THEN 0 ELSE 1) + FailedRuns(Tail(m))

TotalRunsCountsFailed(m) == FailedRuns(m)

\* "total_runs": len(results)
TotalRuns(m) == Len(m)

analyze_performance_results(m) ==
    [total_runs |-> TotalRuns(m),
     successful_runs |-> CountPassed(m),
     failed_runs |-> FailedRuns(m),
     python_versions |-> Keys(m)]

----------------------------------------------------------------------------
(* generate_markdown_report, generate_json_report *)

\* test_result.get(...) raises AttributeError for an entry that is no dict
Renderable(doc) ==
    doc.has_results => \A i \in 1 .. Len(doc.items) : doc.items[i].kind = "object"

Clock == 0 .. MaxClock

\* test_result.get("success") is truthy
Succeeded(item) == item.success = <<TRUE>>

\* test_result.get("stderr") is truthy
HasStderr(item) == item.stderr # <<>> /\ item.stderr[1] # ""

MarkdownExcerptWholeText(s) == [text |-> s, ellipsis |-> Chars(s) > ExcerptLimit]

\* stderr = test_result["stderr"][:200], and "..." when it was longer
MarkdownExcerpt(s) ==
    [text |-> Slice(s, ExcerptLimit), ellipsis |-> Chars(s) > ExcerptLimit]

\* one line of "#### Test Results:", with the Error line under it
DetailLine(item) ==
    [status |-> IF Succeeded(item) THEN "PASS" ELSE "FAIL",
     description |->
        IF item.description = <<>> THEN "Unknown" ELSE item.description[1],
     error |-> IF ~Succeeded(item) /\ HasStderr(item)
               THEN <<MarkdownExcerpt(item.stderr[1])>>
               ELSE <<>>]

\* the "### Python <version>" block of the detailed results
DetailBlock(e) ==
    [version |-> e.key,
     status |-> IF FailedTests(e.data) = 0 THEN "PASS" ELSE "FAIL",
     lines |-> IF e.data.has_results
               THEN [j \in 1 .. Len(e.data.items) |-> DetailLine(e.data.items[j])]
               ELSE <<>>]

ExecutiveMessageNoCount(failed_runs) ==
    IF failed_runs = 0
    THEN [variant |-> "all_passed", count |-> <<>>]
    ELSE [variant |-> "failed", count |-> <<>>]

\* the line that closes the executive summary
ExecutiveMessage(failed_runs) ==
    IF failed_runs = 0
    THEN [variant |-> "all_passed", count |-> <<>>]
    ELSE [variant |-> "failed", count |-> <<failed_runs>>]

\* the recommendations block
Recommendations(failed_runs) ==
    IF failed_runs = 0 THEN "excellent" ELSE "investigate"

ReportListKept == IF outputs.md = <<>> THEN <<>> ELSE outputs.md[1].details

\* report = []: the list of a call starts empty
ReportList == <<>>

\* the parts of the Markdown text that depend on the data or the clock
generate_markdown_report(an, m, t) ==
    [generated |-> t,
     total_runs |-> an.total_runs,
     successful_runs |-> an.successful_runs,
     failed_runs |-> an.failed_runs,
     success_rate |-> SuccessRate(an.successful_runs, an.total_runs),
     executive |-> ExecutiveMessage(an.failed_runs),
     versions |->
        [i \in 1 .. Len(m) |->
            [version |-> m[i].key,
             status |-> IF Passed(m[i].data) THEN "PASS" ELSE "FAIL"]],
     details |-> ReportList \o [i \in 1 .. Len(m) |-> DetailBlock(m[i])],
     recommendations |-> Recommendations(an.failed_runs)]

generate_json_report(an, m, t) ==
    [generated_at |-> t,
     tool |-> "kakashi-performance-summary", version |-> "1.0.0",
     analysis |-> an, results |-> m]

----------------------------------------------------------------------------
(* State machine of main of generate_summary.py *)

\* run_tests.py is not running
RunIdle ==
    /\ args = NoFlags
    /\ pc = "idle"
    /\ child = "none"
    /\ invoked = <<>>
    /\ ret = <<>>
    /\ results = <<>>
    /\ report = <<>>
    /\ console = <<>>
    /\ saved = NoFile
    /\ exit_status = <<>>
    /\ interrupted = FALSE
    /\ printed = <<>>
    /\ closing = <<>>
    /\ saved_doc = <<>>

\* main after parse_args, calling load_test_results after glob
InitSummary ==
    /\ RunIdle
    /\ dir \in Listings
    /\ fmt \in Formats
    /\ s_pc = "load"
    /\ scan = 1
    /\ loaded = <<>>
    /\ warnings = <<>>
    /\ analysis = <<>>
    /\ outputs = NoOutputs
    /\ s_console = <<>>
    /\ s_exit = <<>>

\* an exception nothing catches: traceback, exit status 1
Crash ==
    /\ s_console' = Append(s_console, "traceback")
    /\ s_exit' = <<1>>
    /\ s_pc' = "done"

\* one iteration of "for json_file in json_files"
LoadFile ==
    /\ s_pc = "load"
    /\ scan <= Len(dir)
    /\ loaded' = LoadedAfter(loaded, dir[scan])
    /\ warnings' = WarningsAfter(warnings, dir[scan])
    /\ scan' = NextFile(scan, dir[scan], Len(dir))
    /\ UNCHANGED <<dir, fmt, s_pc, analysis, outputs, s_console, s_exit>>
    /\ UNCHANGED runvars

\* load_test_results returns; main exits with 1 when nothing was loaded
LoadReturn ==
    /\ s_pc = "load"
    /\ scan > Len(dir)
    /\ IF NoResults(loaded)
       THEN /\ s_console' = Append(s_console, "no_results")
            /\ s_exit' = <<1>>
            /\ s_pc' = "done"
       ELSE /\ s_console' = Append(s_console, "loaded")
            /\ s_exit' = s_exit
            /\ s_pc' = "analyze"
    /\ UNCHANGED <<dir, fmt, scan, loaded, warnings, analysis, outputs>>
    /\ UNCHANGED runvars

AfterAnalyze == IF fmt \in {"both", "markdown"} THEN "markdown" ELSE "json"

Analyze ==
    /\ s_pc = "analyze"
    /\ IF \A i \in 1 .. Len(loaded) : Analyzable(loaded[i].data)
       THEN /\ analysis' = <<analyze_performance_results(loaded)>>
            /\ s_pc' = AfterAnalyze
            /\ UNCHANGED <<s_console, s_exit>>
       ELSE /\ Crash
            /\ analysis' = analysis
    /\ UNCHANGED <<dir, fmt, scan, loaded, warnings, outputs>>
    /\ UNCHANGED runvars

\* generate_markdown_report and the write of summary-report.md
RenderMarkdown ==
    /\ s_pc = "markdown"
    /\ IF \A i \in 1 .. Len(loaded) : Renderable(loaded[i].data)
       THEN /\ \E t \in Clock :
                outputs' =
                    [outputs EXCEPT
                        !.md = <<generate_markdown_report(analysis[1], loaded, t)>>]
            /\ s_pc' = (IF fmt = "both" THEN "json" ELSE "summary")
            /\ UNCHANGED <<s_console, s_exit>>
       ELSE /\ Crash
            /\ outputs' = outputs
    /\ UNCHANGED <<dir, fmt, scan, loaded, warnings, analysis>>
    /\ UNCHANGED runvars

\* generate_json_report and the write of summary-report.json
RenderJson ==
    /\ s_pc = "json"
    /\ \E t \in Clock :
        outputs' =
            [outputs EXCEPT
                !.json = <<generate_json_report(analysis[1], loaded, t)>>]
    /\ s_pc' = "summary"
    /\ UNCHANGED <<dir, fmt, scan, loaded, warnings, analysis, s_console,
                   s_exit>>
    /\ UNCHANGED runvars

SummaryExitCode(an) == IF an.failed_runs = 0 THEN 0 ELSE 1

\* the printed summary (its success rate divides by total_runs) and sys.exit
FinalSummary ==
    /\ s_pc = "summary"
    /\ IF analysis[1].total_runs = 0
       THEN Crash
       ELSE /\ s_console' = Append(s_console, "summary")
            /\ s_exit' = <<SummaryExitCode(analysis[1])>>
            /\ s_pc' = "done"
    /\ UNCHANGED <<dir, fmt, scan, loaded, warnings, analysis, outputs>>
    /\ UNCHANGED runvars

NextSummary ==
    \/ LoadFile
    \/ LoadReturn
    \/ Analyze
    \/ RenderMarkdown
    \/ RenderJson
    \/ FinalSummary

SpecSummary == InitSummary /\ [][NextSummary]_vars

----------------------------------------------------------------------------
(* The two commands together: run_tests.py --save-report, then            *)
(* generate_summary.py on the directory the report was saved in           *)

\* the pieces of the --report-file names
Tokens(file) ==
    CASE file = "test_report.json" -> <<"test_report", JsonSuffix>>
      [] file = "test-report-3.11.json" -> ReportName("3.11")

\* the file save_report left behind, as load_test_results finds it; a file
\* whose json.dump was cut short does not parse
SavedFile ==
    [dir |-> "run",
     name |-> Tokens(saved.file),
     valid |-> saved.state = "complete",
     doc |-> IF saved_doc # <<>> THEN saved_doc[1] ELSE DocEmptyObject]

\* generate_summary.py is started after run_tests.py has ended: of the run
\* there remain the file, the exit status and whether it was interrupted
StartSummary ==
    /\ pc = "done"
    /\ saved.state # "none"
    /\ s_pc = "idle"
    /\ dir' = <<SavedFile>>
    /\ fmt' \in Formats
    /\ s_pc' = "load"
    /\ args' = NoFlags
    /\ pc' = "idle"
    /\ invoked' = <<>>
    /\ ret' = <<>>
    /\ results' = <<>>
    /\ report' = <<>>
    /\ console' = <<>>
    /\ printed' = <<>>
    /\ closing' = <<>>
    /\ UNCHANGED <<child, saved, saved_doc, exit_status, interrupted>>
    /\ UNCHANGED <<scan, loaded, warnings, analysis, outputs, s_console, s_exit>>

InitPipeline == Init \/ InitSummary

NextPipeline ==
    \/ Next
    \/ StartSummary
    \/ NextSummary

SpecPipeline == InitPipeline /\ [][NextPipeline]_vars

----------------------------------------------------------------------------
(* analyze_performance_results on its own: any mapping, the empty one      *)
(* included                                                                *)

LoadedKeys == {KeyOf(p.name) : p \in {q \in Paths : Matches(q.name)}}

Mappings ==
    {m \in BoundedSeq([key : LoadedKeys, data : Docs], MaxFiles) :
        \A i, j \in 1 .. Len(m) : m[i].key = m[j].key => i = j}

InitAnalyze ==
    /\ RunIdle
    /\ dir = <<>>
    /\ fmt \in Formats
    /\ s_pc = "analyze"
    /\ scan = 1
    /\ loaded \in Mappings
    /\ warnings = <<>>
    /\ analysis = <<>>
    /\ outputs = NoOutputs
    /\ s_console = <<>>
    /\ s_exit = <<>>

NextAnalyze == Analyze

SpecAnalyze == InitAnalyze /\ [][NextAnalyze]_vars

----------------------------------------------------------------------------
(* generate_markdown_report and generate_json_report on their own: a      *)
(* caller renders the same analysis and results again and again; outputs  *)
(* holds what the last call of each renderer returned and s_console the   *)
(* calls made                                                             *)

\* mappings both renderers accept
RenderableMappings ==
    {m \in Mappings :
        \A i \in 1 .. Len(m) : Analyzable(m[i].data) /\ Renderable(m[i].data)}

InitRender ==
    /\ RunIdle
    /\ dir = <<>>
    /\ fmt = "both"
    /\ s_pc = "render"
    /\ scan = 1
    /\ loaded \in RenderableMappings
    /\ warnings = <<>>
    /\ analysis = <<analyze_performance_results(loaded)>>
    /\ outputs = NoOutputs
    /\ s_console = <<>>
    /\ s_exit = <<>>

CallMarkdown ==
    /\ s_pc = "render"
    /\ Len(s_console) < MaxCalls
    /\ \E t \in Clock :
        outputs' =
            [outputs EXCEPT
                !.md = <<generate_markdown_report(analysis[1], loaded, t)>>]
    /\ s_console' = Append(s_console, "markdown")
    /\ UNCHANGED <<dir, fmt, s_pc, scan, loaded, warnings, analysis, s_exit>>
    /\ UNCHANGED runvars

CallJson ==
    /\ s_pc = "render"
    /\ Len(s_console) < MaxCalls
    /\ \E t \in Clock :
        outputs' =
            [outputs EXCEPT
                !.json = <<generate_json_report(analysis[1], loaded, t)>>]
    /\ s_console' = Append(s_console, "json")
    /\ UNCHANGED <<dir, fmt, s_pc, scan, loaded, warnings, analysis, s_exit>>
    /\ UNCHANGED runvars

NextRender == CallMarkdown \/ CallJson

SpecRender == InitRender /\ [][NextRender]_vars

----------------------------------------------------------------------------
(* Claims *)

LastOf(seq) == seq[Len(seq)]

InstallFailed == console # <<>> /\ LastOf(console) = "deps_failed"
SaveFailed == console # <<>> /\ LastOf(console) = "unexpected_error"

SuiteCalls == SelectSeq(invoked, LAMBDA d : d # InstallDescription)

C1_Final ==
    (RunsAll(args) /\ pc = "done" /\ ~interrupted /\ ~InstallFailed) =>
        /\ SuiteCalls = AllSuites
        /\ Len(results) = 3
        /\ \A i \in 1 .. 3 : results[i].description = AllSuites[i]

C1_Step ==
    (RunsAll(args) /\ pc = "suites" /\ Len(results') = Len(results) + 1) =>
        /\ SubSeq(results', 1, Len(results)) = results
        /\ LastOf(results').description = AllSuites[Len(results')]
        /\ LastOf(results').success =
              (ret'[1].outcome.kind = "exit" /\ ret'[1].outcome.code = 0)
        /\ pc' = (IF Len(results') < 3 THEN "suites" ELSE "report")

\* C1: with no single-suite flag, a run that is not interrupted (and whose
\* dependency installation did not fail) invokes the API, performance and
\* stability suites in that order and ends with exactly three results in
\* that order; every return of run_command for a suite, whatever its
\* outcome, appends one result whose success depends on that suite's own
\* outcome only, leaves the earlier results as they are, and is followed
\* by the next suite.
C1_ContinueOnFailure == [](C1_Final) /\ [][C1_Step]_vars

C1_Witness ==
    /\ RunsAll(args) /\ pc = "done" /\ ~interrupted
    /\ Len(results) = 3
    /\ results[1].success /\ ~results[2].success /\ results[3].success

\* the last return of run_command came from a suite and main holds it
ReturnedToMain ==
    /\ results # <<>>
    /\ LastOf(results) = ret[1].result
    /\ ~InstallFailed

\* the last return of run_command went to install_dependencies
ReturnedToInstall ==
    /\ ret[1].result.description = InstallDescription
    /\ results = <<>>
    /\ pc = "done" /\ InstallFailed /\ exit_status = <<1>>

\* C2: when the child cannot be started, run_command raises nothing: it
\* hands its caller a result with success = FALSE, returncode = -1, stderr
\* the error text and duration 0.
C2_SpawnFailureIsData ==
    (ret # <<>> /\ ret[1].outcome.kind = "spawn_error") =>
        /\ ret[1].result.success = FALSE
        /\ ret[1].result.returncode = -1
        /\ ret[1].result.stderr = ret[1].outcome.stderr
        /\ ret[1].result.stderr \in SpawnErrors
        /\ ret[1].result.duration = 0
        /\ (interrupted \/ ReturnedToMain \/ ReturnedToInstall)

C2_Witness ==
    /\ ret # <<>> /\ ret[1].outcome.kind = "spawn_error"
    /\ Len(results) = 2 /\ LastOf(results) = ret[1].result
    /\ pc = "suites"

\* C3: when the child has not exited after the timeout, run_command returns
\* success = FALSE, returncode = -1, duration = the timeout (300 s) and the
\* timeout message as stderr.
C3_TimeoutResult ==
    (ret # <<>> /\ ret[1].outcome.kind = "timeout") =>
        /\ ret[1].result.success = FALSE
        /\ ret[1].result.returncode = -1
        /\ ret[1].result.duration = TimeoutSeconds
        /\ ret[1].result.stderr = TimeoutMessage

C3_Witness ==
    /\ ret # <<>> /\ ret[1].outcome.kind = "timeout"
    /\ results # <<>> /\ LastOf(results).duration = TimeoutSeconds

AllSucceeded == \A i \in 1 .. Len(results) : results[i].success

\* C4 as stated: the exit status of a run that is not interrupted is 0 if
\* every invoked suite's result has success = TRUE and 1 otherwise, for
\* every combination of flags.
C4_Original ==
    (pc = "done" /\ ~interrupted) =>
        exit_status = <<IF AllSucceeded THEN 0 ELSE 1>>

\* C4 (amended): a run that is not interrupted exits with 1 when the
\* dependency installation asked for by --install-deps failed (no suite is
\* invoked then) or when saving the report raised; otherwise with 0 if every
\* invoked suite's result has success = TRUE and with 1 if not.
C4_ExitStatus ==
    (pc = "done" /\ ~interrupted) =>
        exit_status =
            <<IF InstallFailed \/ SaveFailed THEN 1
              ELSE IF AllSucceeded THEN 0 ELSE 1>>

C4_Witness ==
    /\ pc = "done" /\ ~interrupted
    /\ args.install_deps /\ InstallFailed
    /\ results = <<>> /\ invoked = <<InstallDescription>>
    /\ exit_status = <<1>>

\* C5 as stated: once a KeyboardInterrupt has arrived, at whatever point of
\* the run, the run is over (no further suite is started) and the process
\* has exited with status 130.
C5_Original ==
    interrupted =>
        /\ pc = "done"
        /\ child = "none"
        /\ exit_status = <<InterruptExit>>

\* C6 as stated: after an interruption a report over the results collected
\* so far has been produced, carries an "interrupted" marker, and has been
\* saved when --save-report was given.
C6_Original ==
    (interrupted /\ pc = "done" /\ results # <<>>) =>
        /\ report # <<>>
        /\ report[1].results = results
        /\ "interrupted" \in DOMAIN report[1]
        /\ \E i \in 1 .. Len(console) : console[i] = "report"
        /\ (args.save_report => saved.state = "complete")

ReportKeys ==
    {"summary", "results", "timestamp", "python_version", "platform"}

\* C6 (amended): an interruption that arrives before the report is generated
\* drops the results collected so far: no report is generated, printed or
\* saved, also with --save-report; nothing is printed after the interruption
\* message, and no report the run builds has an "interrupted" marker: the
\* interruption shows in the console message and the exit status only.
C6_InterruptDropsResults ==
    interrupted =>
        /\ (report = <<>> =>
                /\ \A i \in 1 .. Len(console) : console[i] # "report"
                /\ saved = NoFile)
        /\ (report # <<>> => DOMAIN report[1] = ReportKeys)
        /\ LastOf(console) \in {"interrupted", "traceback"}

C6_Witness ==
    /\ interrupted /\ pc = "done"
    /\ args.save_report
    /\ Len(results) = 2
    /\ report = <<>>
    /\ saved = NoFile
    /\ exit_status = <<InterruptExit>>

SuccessCount == Cardinality({i \in 1 .. Len(results) : results[i].success})

\* C7: for every list of results, the empty one included, the report has
\* total_tests = len(results) = successful_tests + failed_tests, with
\* successful_tests the number of results with success = TRUE and both
\* counts non-negative.
C7_CountsAddUp ==
    report # <<>> =>
        LET sm == report[1].summary IN
        /\ report[1].results = results
        /\ sm.total_tests = Len(results)
        /\ sm.total_tests = sm.successful_tests + sm.failed_tests
        /\ sm.successful_tests = SuccessCount
        /\ sm.successful_tests >= 0
        /\ sm.failed_tests >= 0

C7_Witness ==
    /\ report # <<>>
    /\ Len(results) = 3
    /\ report[1].summary.successful_tests = 1
    /\ report[1].summary.failed_tests = 2

\* C8 as stated: success_rate = successful_tests / total_tests when
\* total_tests > 0, and 0 when total_tests = 0.
C8_Original ==
    report # <<>> =>
        LET sm == report[1].summary IN
        IF sm.total_tests > 0
        THEN sm.success_rate.num * sm.total_tests
                = sm.successful_tests * sm.success_rate.den
        ELSE sm.success_rate.num = 0

\* C8 (amended): success_rate is the percentage
\* successful_tests / total_tests * 100 when total_tests > 0, and 0 (no
\* error) when total_tests = 0.
C8_SuccessRatePercent ==
    report # <<>> =>
        LET sm == report[1].summary IN
        /\ sm.success_rate.den > 0
        /\ IF Len(results) > 0
           THEN sm.success_rate.num * Len(results)
                   = 100 * SuccessCount * sm.success_rate.den
           ELSE sm.success_rate.num = 0

C8_Witness ==
    /\ report # <<>>
    /\ Len(results) = 2
    /\ SuccessCount = 1
    /\ report[1].summary.success_rate.num = 50 * report[1].summary.success_rate.den

\* C9 as stated: in every result of run_command success holds exactly when
\* the recorded returncode is 0, and for a child that exited within the
\* timeout the recorded returncode is the child's own exit status.
C9_Original ==
    ret # <<>> =>
        /\ ret[1].result.success = (ret[1].result.returncode = 0)
        /\ (ret[1].outcome.kind \in {"exit", "decode_error"} =>
                ret[1].result.returncode = ret[1].outcome.code)

\* C10 as stated: a result has returncode = -1 only when the invocation
\* timed out or the child could not be started, never for a child that ran
\* and terminated.
C10_Original ==
    (ret # <<>> /\ ret[1].result.returncode = SentinelReturncode) =>
        ret[1].outcome.kind \in {"timeout", "spawn_error"}

DescriptionsOf(rs) == [i \in 1 .. Len(rs) |-> rs[i].description]

ItemDescriptions(doc) ==
    [i \in 1 .. Len(doc.items) |-> doc.items[i].description[1]]

\* C11: the results of a report are in the order the suites were invoked
\* (API, performance, stability for a full run): the report holds the
\* results list as it is, print_report prints one line per result in that
\* order and save_report writes the entries in that order; none of them
\* reorders, drops or duplicates a result.
C11_InvocationOrder ==
    /\ DescriptionsOf(results) = SubSeq(SuiteCalls, 1, Len(results))
    /\ (report # <<>> =>
            /\ report[1].results = results
            /\ DescriptionsOf(results) = SuiteCalls
            /\ SuiteCalls = SuitesToRun(args))
    /\ DescriptionsOf(printed) = SubSeq(DescriptionsOf(results), 1, Len(printed))
    /\ (pc \in {"save", "done"} /\ ~interrupted /\ report # <<>> =>
            /\ Len(printed) = Len(results)
            /\ \A i \in 1 .. Len(results) :
                  printed[i].status = "PASS" <=> results[i].success)
    /\ (saved_doc # <<>> =>
            /\ ItemDescriptions(saved_doc[1]) = DescriptionsOf(results)
            /\ \A i \in 1 .. Len(results) :
                  saved_doc[1].items[i] = ItemOf(results[i]))

C11_Witness ==
    /\ pc = "done" /\ ~interrupted
    /\ saved_doc # <<>>
    /\ ItemDescriptions(saved_doc[1]) = AllSuites
    /\ DescriptionsOf(printed) = AllSuites
    /\ ~results[1].success /\ results[2].success /\ ~results[3].success

OneFlag ==
    \/ args.api_only /\ ~args.performance_only /\ ~args.stability_only
    \/ ~args.api_only /\ args.performance_only /\ ~args.stability_only
    \/ ~args.api_only /\ ~args.performance_only /\ args.stability_only

SelectedSuite ==
    IF args.api_only THEN ApiDescription
    ELSE IF args.performance_only THEN PerformanceDescription
    ELSE StabilityDescription

\* C12: with exactly one of --api-only, --performance-only, --stability-only
\* no suite other than the selected one is ever invoked and it is invoked at
\* most once; a run that is not interrupted (and whose dependency
\* installation did not fail) invokes it exactly once and ends with exactly
\* one result, whose description names the selected suite.
C12_SingleSuite ==
    OneFlag =>
        /\ Len(SuiteCalls) <= 1
        /\ \A i \in 1 .. Len(SuiteCalls) : SuiteCalls[i] = SelectedSuite
        /\ Len(results) <= 1
        /\ \A i \in 1 .. Len(results) : results[i].description = SelectedSuite
        /\ (pc = "done" /\ ~interrupted /\ ~InstallFailed =>
                /\ SuiteCalls = <<SelectedSuite>>
                /\ Len(results) = 1
                /\ report # <<>>
                /\ report[1].summary.total_tests = 1)

C12_Witness ==
    /\ OneFlag /\ args.performance_only
    /\ pc = "done" /\ ~interrupted
    /\ invoked = <<PerformanceDescription>>
    /\ Len(results) = 1
    /\ results[1].description = PerformanceDescription

\* C13: for every mapping of loaded reports, the analysis has total_runs
\* equal to the number of entries of the mapping and to
\* successful_runs + failed_runs.
C13_RunsAddUp ==
    analysis # <<>> =>
        /\ analysis[1].total_runs = Len(loaded)
        /\ analysis[1].total_runs =
            analysis[1].successful_runs + analysis[1].failed_runs
        /\ analysis[1].successful_runs \in 0 .. Len(loaded)
        /\ analysis[1].failed_runs \in 0 .. Len(loaded)

C13_Witness ==
    /\ analysis # <<>>
    /\ Len(loaded) = 2
    /\ analysis[1].successful_runs = 1
    /\ analysis[1].failed_runs = 1

\* the failed count a report states, absent counted as zero
StatedFailures(doc) ==
    IF doc.summary = "object" /\ Len(doc.failed_tests) = 1
    THEN doc.failed_tests[1] ELSE 0

FailedVersions == {i \in 1 .. Len(loaded) : StatedFailures(loaded[i].data) # 0}

\* C14: a loaded report counts as a failed run if and only if its failed
\* count is nonzero (a missing count is zero), and as a successful run
\* otherwise; 3.11 with 0 failed and 3.9 with 2 failed give total 2,
\* successful 1, failed 1.
C14_FailedIffNonzero ==
    analysis # <<>> =>
        /\ analysis[1].failed_runs = Cardinality(FailedVersions)
        /\ analysis[1].successful_runs =
            Len(loaded) - Cardinality(FailedVersions)
        /\ outputs.md # <<>> =>
            \A i \in 1 .. Len(loaded) :
                outputs.md[1].versions[i].status = "FAIL" <=> i \in FailedVersions

C14_Witness ==
    /\ analysis # <<>>
    /\ Len(loaded) = 2
    /\ \E i, j \in 1 .. 2 :
        /\ loaded[i].key = <<"python_", "3.11">>
        /\ StatedFailures(loaded[i].data) = 0
        /\ loaded[j].key = <<"python_", "3.9">>
        /\ StatedFailures(loaded[j].data) = 2
    /\ analysis[1].total_runs = 2
    /\ analysis[1].successful_runs = 1
    /\ analysis[1].failed_runs = 1
    /\ s_exit = <<1>>

\* the name has the form test-report-<label>.json
HasReportForm(name) ==
    Len(name) = 3 /\ name[1] = Marker /\ name[3] = JsonSuffix

LoadFinished == s_pc \notin {"idle", "load"}

WarnedPaths == {warnings[i] : i \in 1 .. Len(warnings)}

\* C15: a file that cannot be parsed as JSON is skipped with a warning and
\* does not abort the summary: loading goes on with the next file, and every
\* parsable file named test-report-<label>.json is loaded.
C15_Skip ==
    (s_pc = "load" /\ scan <= Len(dir) /\ ~dir[scan].valid) =>
        /\ loaded' = loaded
        /\ warnings' = Append(warnings, PathOf(dir[scan]))
        /\ scan' = scan + 1
        /\ s_pc' = "load"
        /\ s_exit' = <<>>

C15_AllLoaded ==
    LoadFinished =>
        /\ \A i \in 1 .. Len(dir) :
            IF dir[i].valid
            THEN HasReportForm(dir[i].name) =>
                    HasKey(loaded, <<"python_", dir[i].name[2]>>)
            ELSE PathOf(dir[i]) \in WarnedPaths
        /\ "traceback" \in {s_console[i] : i \in 1 .. Len(s_console)} =>
            s_pc = "done" /\ loaded # <<>>

C15_BadFileSkipped == []C15_AllLoaded /\ [][C15_Skip]_vars

\* an unparsable file came first and the report after it was still summarized
C15_Witness ==
    /\ Len(dir) = 2
    /\ ~dir[1].valid
    /\ dir[2].valid
    /\ HasReportForm(dir[2].name)
    /\ warnings = <<PathOf(dir[1])>>
    /\ Keys(loaded) = << <<"python_", dir[2].name[2]>> >>
    /\ outputs.md # <<>>
    /\ s_exit = <<0>>

\* C16: when no run report is found or loadable, summarize prints the
\* no-results message and exits with status 1: no analysis, no report file,
\* no uncaught error.
C16_NoResultsExit ==
    /\ (LoadFinished /\ loaded = <<>>) =>
        /\ s_pc = "done"
        /\ s_console = <<"no_results">>
        /\ s_exit = <<1>>
        /\ analysis = <<>>
        /\ outputs = NoOutputs
    /\ analysis # <<>> => analysis[1].total_runs > 0

\* one file that does not parse and one whose name is not a report's
C16_Witness ==
    /\ s_pc = "done"
    /\ Len(dir) = 2
    /\ \E i \in 1 .. 2 : ~dir[i].valid
    /\ \E i \in 1 .. 2 : dir[i].valid /\ ~Matches(dir[i].name)
    /\ loaded = <<>>
    /\ s_exit = <<1>>

\* every loaded report is an object the analysis classifies as passed
AllClassifiedPassed ==
    \A i \in 1 .. Len(loaded) :
        Analyzable(loaded[i].data) /\ StatedFailures(loaded[i].data) = 0

\* C17: summarize exits with 0 if every loaded report is classified as
\* passed, with 1 if at least one is classified as failed, and with 1 if no
\* report was found, for every --format.
C17_Original ==
    s_pc = "done" =>
        s_exit = <<IF loaded # <<>> /\ AllClassifiedPassed THEN 0 ELSE 1>>

Traceback == \E i \in 1 .. Len(s_console) : s_console[i] = "traceback"

Rendered ==
    /\ fmt \in {"both", "markdown"} => outputs.md # <<>>
    /\ fmt \in {"both", "json"} => outputs.json # <<>>

\* C20: whatever the JSON content of the files accepted as reports,
\* summarize ends with a rendered report and exit status 0 or 1, never with
\* an uncaught exception.
C20_Original ==
    (s_pc = "done" /\ loaded # <<>>) =>
        /\ ~Traceback
        /\ Rendered
        /\ s_exit \in {<<0>>, <<1>>}

\* the files the loop has been through
Scanned == {i \in 1 .. Len(dir) : i < scan}

ContainsMarker(name) == Marker \in {name[i] : i \in 1 .. Len(name)}

Accepted == {i \in Scanned : dir[i].valid /\ ContainsMarker(dir[i].name)}

LoadedKeySet == {loaded[i].key : i \in 1 .. Len(loaded)}

\* C18 as stated: a JSON file whose name does not have the form
\* test-report-<label>.json is not added to the loaded reports, loading
\* continues without error, and a warning is surfaced for that file.
C18_Original ==
    /\ \A i \in Scanned :
        (dir[i].valid /\ ~HasReportForm(dir[i].name)) =>
            PathOf(dir[i]) \in WarnedPaths
    /\ LoadedKeySet \subseteq
        {<<"python_", dir[i].name[2]>> :
            i \in {j \in Scanned : dir[j].valid /\ HasReportForm(dir[j].name)}}

\* C18 (amended): a parsable JSON file whose name does not contain
\* 'test-report-' is not added to the loaded reports and loading continues,
\* with no warning: the warnings are exactly the files that could not be
\* opened or parsed. Every parsable file whose name contains 'test-report-'
\* anywhere is added, under what is left of the name without 'test-report-'
\* and '.json'.
C18_SilentSkip ==
    /\ WarnedPaths = {PathOf(dir[i]) : i \in {j \in Scanned : ~dir[j].valid}}
    /\ LoadedKeySet = {KeyOf(dir[i].name) : i \in Accepted}
    /\ ~LoadFinished => s_exit = <<>> /\ s_console = <<>>

C18_Witness ==
    /\ LoadFinished
    /\ Len(dir) = 2
    /\ dir[1].valid
    /\ ~ContainsMarker(dir[1].name)
    /\ dir[2].valid
    /\ ContainsMarker(dir[2].name)
    /\ ~HasReportForm(dir[2].name)
    /\ warnings = <<>>
    /\ Keys(loaded) = << <<"python_", "old-", "3.9">> >>

\* the file loaded last among those that yield key k
LastFor(k) ==
    CHOOSE i \in Accepted :
        /\ KeyOf(dir[i].name) = k
        /\ \A j \in Accepted : KeyOf(dir[j].name) = k => j <= i

\* C19: when two discovered files yield the same label, the loaded mapping
\* has exactly one entry for the label, its value is the whole content of
\* the file loaded later, and total_runs counts the label once.
C19_LastWriteWins ==
    /\ \A i, j \in 1 .. Len(loaded) : loaded[i].key = loaded[j].key => i = j
    /\ \A i \in 1 .. Len(loaded) :
        /\ \E a \in Accepted : KeyOf(dir[a].name) = loaded[i].key
        /\ loaded[i].data = dir[LastFor(loaded[i].key)].doc
    /\ analysis # <<>> =>
        analysis[1].total_runs =
            Cardinality({KeyOf(dir[i].name) : i \in Accepted})

C19_Witness ==
    /\ Len(dir) = 2
    /\ dir[1].valid
    /\ dir[2].valid
    /\ HasReportForm(dir[1].name)
    /\ dir[1].name = dir[2].name
    /\ dir[1].doc = DocPass
    /\ dir[2].doc = DocFail
    /\ Len(loaded) = 1
    /\ loaded[1].data = DocFail
    /\ analysis # <<>>
    /\ analysis[1].total_runs = 1
    /\ analysis[1].failed_runs = 1

\* the excerpt of a text longer than ExcerptLimit: its first ExcerptLimit
\* characters and the ellipsis
LongExcerpt(s) == [text |-> Es(ExcerptLimit), ellipsis |-> TRUE]

IsLong(s) == Chars(s) > ExcerptLimit

ConsoleLongErrors ==
    \A i \in 1 .. Len(printed) :
        (~results[i].success /\ IsLong(results[i].stderr)) =>
            printed[i].error = <<LongExcerpt(results[i].stderr)>>

SavedReportKeepsStderr ==
    (saved_doc # <<>> /\ report # <<>>) =>
        /\ Len(saved_doc[1].items) = Len(results)
        /\ \A i \in 1 .. Len(results) :
            saved_doc[1].items[i].stderr = <<results[i].stderr>>

MarkdownLongErrors ==
    outputs.md # <<>> =>
        \A v \in 1 .. Len(loaded) :
            \A j \in 1 .. Len(loaded[v].data.items) :
                LET item == loaded[v].data.items[j] IN
                (item.success # <<TRUE>> /\ item.stderr # <<>>
                    /\ IsLong(item.stderr[1])) =>
                    outputs.md[1].details[v].lines[j].error =
                        <<LongExcerpt(item.stderr[1])>>

SummaryJsonKeepsStderr ==
    outputs.json # <<>> =>
        /\ outputs.json[1].results = loaded
        /\ \A i \in 1 .. Len(loaded) :
            loaded[i].data = dir[LastFor(loaded[i].key)].doc

\* C21: for a failed result whose stderr is longer than 200 characters the
\* displayed excerpt (console report, Markdown summary) is its first 200
\* characters followed by the ellipsis, while the saved run report and the
\* summary JSON hold the whole stderr.
C21_ExcerptAndStoredText ==
    /\ ConsoleLongErrors
    /\ SavedReportKeepsStderr
    /\ MarkdownLongErrors
    /\ SummaryJsonKeepsStderr

\* a run saved a failure with 201 characters of stderr; the summary of that
\* file shows 200 of them and keeps 201 in its JSON
C21_Witness ==
    /\ Len(dir) = 1
    /\ dir[1].dir = "run"
    /\ outputs.md # <<>>
    /\ outputs.json # <<>>
    /\ saved_doc # <<>>
    /\ saved_doc[1].items[1].stderr = <<Stderr201>>
    /\ outputs.md[1].details[1].lines[1].error =
        <<[text |-> Stderr200, ellipsis |-> TRUE]>>
    /\ outputs.json[1].results[1].data.items[1].stderr = <<Stderr201>>

FailedResults == {i \in 1 .. Len(results) : ~results[i].success}

SuccessVariant == [variant |-> "all_passed", count |-> <<>>]

FailureVariant(n) == [variant |-> "failed", count |-> <<n>>]

ConsoleClosing ==
    closing # <<>> =>
        closing[1] = IF Cardinality(FailedResults) = 0
                     THEN SuccessVariant
                     ELSE FailureVariant(Cardinality(FailedResults))

MarkdownClosing ==
    outputs.md # <<>> =>
        /\ outputs.md[1].executive =
            IF Cardinality(FailedVersions) = 0
            THEN SuccessVariant
            ELSE FailureVariant(Cardinality(FailedVersions))
        /\ outputs.md[1].recommendations = "excellent" <=>
            outputs.md[1].executive = SuccessVariant
        /\ outputs.md[1].recommendations = "investigate" <=>
            outputs.md[1].executive # SuccessVariant

\* C22: the closing message depends only on whether the failed count is
\* zero: the success variant alone when it is zero, the failure variant
\* naming the count alone when it is not, in the console run report and in
\* the Markdown summary, whose executive summary and recommendations agree.
C22_ClosingMessage == ConsoleClosing /\ MarkdownClosing

C22_Witness ==
    /\ outputs.md # <<>>
    /\ Len(loaded) = 2
    /\ outputs.md[1].executive = FailureVariant(2)
    /\ outputs.md[1].recommendations = "investigate"

\* a rendering with its generation timestamp blanked
WithoutTimestamp(out) ==
    [md |-> IF out.md = <<>> THEN <<>>
            ELSE <<[out.md[1] EXCEPT !.generated = 0]>>,
     json |-> IF out.json = <<>> THEN <<>>
              ELSE <<[out.json[1] EXCEPT !.generated_at = 0]>>]

\* out is what a renderer returned before, new what it returns now
SameRendering(out, new) ==
    /\ out.md # <<>> => WithoutTimestamp(new).md = WithoutTimestamp(out).md
    /\ out.json # <<>> => WithoutTimestamp(new).json = WithoutTimestamp(out).json

C23_Step ==
    s_pc = "render" =>
        /\ SameRendering(outputs, outputs')
        /\ analysis' = analysis
        /\ loaded' = loaded

InstallReturned ==
    \E i \in 1 .. Len(console) : console[i] \in {"deps_installed", "deps_failed"}

\* calls of run_command that have returned
Returned == Len(results) + (IF InstallReturned THEN 1 ELSE 0)

\* calls of run_command that have not returned
Outstanding == Len(invoked) - Returned

C24_AtMostOne ==
    /\ Outstanding \in {0, 1}
    /\ child # "none" => Outstanding = 1 /\ pc \in {"install", "suites"}

C24_Step ==
    Len(invoked') > Len(invoked) =>
        /\ child = "none"
        /\ Outstanding = 0
        /\ Len(invoked') = Len(invoked) + 1

\* C24: suites are invoked one at a time: at every moment at most one call
\* of run_command is under way and at most one child is running, and a suite
\* is started only after run_command has returned for the one before it.
C24_OneAtATime == []C24_AtMostOne /\ [][C24_Step]_vars

\* the third suite is running after the first two returned
C24_Witness ==
    /\ child = "running"
    /\ Len(results) = 2
    /\ SuiteCalls = AllSuites
    /\ ret # <<>>
    /\ ret[1].outcome.kind = "timeout"

\* C25 as stated: every call of run_command returns, no child is left
\* running, and hence a run that is not interrupted always reaches report
\* generation and an exit status.
C25_Original ==
    /\ child # "none" => pc \in {"install", "suites"}
    /\ (pc = "done" /\ ~interrupted) => report # <<>> /\ exit_status # <<>>

C25_NoChildLeft ==
    /\ child # "none" => pc \in {"install", "suites"}
    /\ pc = "done" => child = "none" /\ exit_status # <<>>
    /\ (ret # <<>> /\ ret[1].outcome.kind = "timeout") =>
        ret[1].result.stderr = TimeoutMessage

C25_ReportUnlessInstallFailed ==
    (pc = "done" /\ ~interrupted /\ ~InstallFailed) => report # <<>>

\* C25 (amended): every call of run_command returns, also for a child that
\* never exits, which is killed when the timeout elapses; no child is left
\* running once run_command has returned; every run reaches an exit status,
\* and a run that is not interrupted reaches report generation unless the
\* installation of the dependencies failed, which ends it with status 1 and
\* no report.
C25_Terminates ==
    /\ []C25_NoChildLeft
    /\ []C25_ReportUnlessInstallFailed
    /\ <>(pc = "done")

\* a child that never exits was killed at the timeout and the run went on
\* to its report
C25_Witness ==
    /\ pc = "done"
    /\ ~interrupted
    /\ report # <<>>
    /\ Len(results) = 3
    /\ results[1].stderr = TimeoutMessage
    /\ results[1].duration = TimeoutSeconds
    /\ exit_status = <<1>>

\* the summary was started on the file of a run, which was saved whole
SummaryOfSavedRun ==
    /\ pc = "idle"
    /\ saved.state = "complete"
    /\ Len(dir) = 1
    /\ dir[1].dir = "run"

\* C26: the run command persists its report under the naming convention
\* test-report-<label>.json, so that a report saved with --save-report and
\* the default --report-file is discovered and loaded by summarize.
C26_Original ==
    (SummaryOfSavedRun /\ LoadFinished) =>
        /\ HasReportForm(dir[1].name)
        /\ \E i \in 1 .. Len(loaded) : loaded[i].data = saved_doc[1]

\* main is at or past "report = generate_report(results)"
AtReport == pc \in {"report", "print", "save"} \/ report # <<>>

SeveralFlags ==
    \/ args.api_only /\ args.performance_only
    \/ args.api_only /\ args.stability_only
    \/ args.performance_only /\ args.stability_only

\* --api-only before --performance-only before --stability-only
PreferredSuite ==
    CASE args.api_only -> ApiDescription
      [] ~args.api_only /\ args.performance_only -> PerformanceDescription
      [] ~args.api_only /\ ~args.performance_only -> StabilityDescription

\* C27: whenever the run reaches report generation the results list has
\* exactly 1 or exactly 3 entries, never none, so generate_report is not
\* called with total == 0; with more than one single-suite flag exactly one
\* suite runs: --api-only before --performance-only before --stability-only.
C27_OneOrThree ==
    /\ AtReport =>
        /\ Len(results) \in {1, 3}
        /\ Len(results) = 3 <=>
            (~args.api_only /\ ~args.performance_only /\ ~args.stability_only)
    /\ report # <<>> =>
        /\ report[1].summary.total_tests = Len(results)
        /\ report[1].summary.total_tests > 0
    /\ (AtReport /\ SeveralFlags) =>
        /\ SuiteCalls = <<PreferredSuite>>
        /\ DescriptionsOf(results) = <<PreferredSuite>>

\* --performance-only and --stability-only together ran the performance
\* suite alone
C27_Witness ==
    /\ report # <<>>
    /\ ~args.api_only
    /\ args.performance_only
    /\ args.stability_only
    /\ DescriptionsOf(results) = <<PerformanceDescription>>
    /\ report[1].summary.total_tests = 1

\* the ZeroDivisionError of the final summary: a traceback after the
\* analysis and after everything was rendered
FinalSummaryCrashed == Traceback /\ analysis # <<>> /\ Rendered

\* C28: summarize never divides by zero: whenever main reaches the
\* success-rate computation of its final summary, total_runs is at least 1,
\* an empty set of loaded reports having led to exit status 1 before.
C28_NoDivisionByZero ==
    /\ s_pc = "summary" => analysis # <<>> /\ analysis[1].total_runs >= 1
    /\ s_pc \in {"analyze", "markdown", "json", "summary"} => loaded # <<>>
    /\ (LoadFinished /\ loaded = <<>>) => s_pc = "done" /\ s_exit = <<1>>
    /\ ~FinalSummaryCrashed

\* the final summary was printed for one loaded report
C28_Witness ==
    /\ s_pc = "done"
    /\ Len(loaded) = 1
    /\ analysis # <<>>
    /\ analysis[1].total_runs = 1
    /\ s_console = <<"loaded", "summary">>
    /\ s_exit = <<0>>

\* a text shown whole, with no ellipsis
WholeText(s) == [text |-> s, ellipsis |-> FALSE]

ConsoleShortErrors ==
    \A i \in 1 .. Len(printed) :
        (~results[i].success /\ results[i].stderr # ""
            /\ ~IsLong(results[i].stderr)) =>
            printed[i].error = <<WholeText(results[i].stderr)>>

MarkdownShortErrors ==
    outputs.md # <<>> =>
        \A v \in 1 .. Len(loaded) :
            \A j \in 1 .. Len(loaded[v].data.items) :
                LET item == loaded[v].data.items[j] IN
                (item.success # <<TRUE>> /\ item.stderr # <<>>
                    /\ item.stderr[1] # "" /\ ~IsLong(item.stderr[1])) =>
                    outputs.md[1].details[v].lines[j].error =
                        <<WholeText(item.stderr[1])>>

\* C29: the ellipsis is appended to a displayed stderr excerpt only when
\* the stderr was truncated: a failed result whose non-empty stderr has at
\* most 200 characters is shown whole with no ellipsis, in the console run
\* report and in the Markdown summary.
C29_Original == ConsoleShortErrors /\ MarkdownShortErrors

\* the summary has analysed the report a run saved
SavedRunAnalysed == SummaryOfSavedRun /\ loaded # <<>> /\ analysis # <<>>

PassShown == {i \in 1 .. Len(loaded) : outputs.md[1].versions[i].status = "PASS"}

\* the PASS/FAIL shown per environment is the classification counted
MarkdownAgreesWithCounts ==
    outputs.md # <<>> =>
        /\ Cardinality(PassShown) = analysis[1].successful_runs
        /\ Len(loaded) - Cardinality(PassShown) = analysis[1].failed_runs
        /\ \A i \in 1 .. Len(loaded) :
            outputs.md[1].details[i].status = outputs.md[1].versions[i].status

\* C30 as stated: for every run whose report was saved by the run command
\* and is later loaded by summarize, summarize classifies the run as passed
\* if and only if the run command exited with status 0, and the PASS/FAIL
\* shown in the Markdown summary is the classification counted.
C30_Original ==
    /\ SavedRunAnalysed =>
        (analysis[1].successful_runs = 1 <=> exit_status = <<0>>)
    /\ MarkdownAgreesWithCounts

\* C30 (amended): summarize classifies a saved and loaded run as passed if
\* and only if its saved report counts no failed suite, which for a run that
\* was not interrupted is if and only if the run command exited with status
\* 0 (a run interrupted after its report was written exits with 130
\* whatever the report says); the PASS/FAIL shown in the Markdown summary is
\* the classification counted.
C30_StagesAgree ==
    /\ SavedRunAnalysed =>
        /\ analysis[1].successful_runs = 1 <=> saved_doc[1].failed_tests = <<0>>
        /\ analysis[1].successful_runs + analysis[1].failed_runs = 1
        /\ ~interrupted =>
            (analysis[1].successful_runs = 1 <=> exit_status = <<0>>)
        /\ interrupted => exit_status = <<InterruptExit>>
    /\ MarkdownAgreesWithCounts

\* a run that exited with 0 is shown as PASS by the summary of its file
C30_Witness ==
    /\ SavedRunAnalysed
    /\ ~interrupted
    /\ exit_status = <<0>>
    /\ Len(saved_doc[1].items) = 3
    /\ outputs.md # <<>>
    /\ outputs.md[1].versions[1].status = "PASS"
    /\ analysis[1].successful_runs = 1
    /\ s_exit = <<0>>

====
